---- MODULE Spec2Model ----
(***************************************************************************)
(* Model of the in-memory UTXO reserver (package utxodb): MemoryReserver, *)
(* its per-account accountReserver lock domains and the idempotency group *)
(* in front of Reserve.  Every mutex is explicit; a critical section is   *)
(* one step that takes the lock and runs the body, and one step that      *)
(* releases it.                                                            *)
(***************************************************************************)
EXTENDS Integers, Sequences, FiniteSets, TLC

None == "none"    \* nil string, nil error, no mutex holder
Nil == 0          \* nil pointer to an accountReserver or a call

\* ---- bounds of the model ----
MaxRid == 2         \* reservation attempts in one behaviour
MaxTime == 1        \* last clock tick
MaxExp == 2         \* latest expiry a caller asks for
MaxAmount == 2      \* largest amount a caller asks for

\* ---- program constants ----
MaxInt32 == 2147483647

\* expiry times a caller asks for: already due at the first tick, or late
Expiries == {0, MaxExp}

Procs == {"p1", "p2"}
\* the periodic caller of ExpireReservations
Sweepers == {"p2"}
Tokens == {"t"}
AccountIDs == {"a"}
AssetIDs == {"x"}
Outpoints == {"o1", "o2"}
MissingOutpoint == "o0"

\* The account_utxos table read by findMatchingUTXOs and findSpecificUTXO.
Store ==
  { [Outpoint |-> "o1", AccountID |-> "a", AssetID |-> "x", Amount |-> 1],
    [Outpoint |-> "o2", AccountID |-> "a", AssetID |-> "x", Amount |-> 2] }

\* accountReserver objects and idempotency call objects live on the heap;
\* there are never more reachable ones than map entries plus running calls.
DomIds == 1 .. (Cardinality(AccountIDs) + Cardinality(Procs))
CallIds == 1 .. (Cardinality(Tokens) + Cardinality(Procs))

EmptyMap == [o \in {} |-> 0]
NoRes == [ID |-> 0, AccountID |-> None, UTXOs |-> << >>, Change |-> << >>,
          Expiry |-> 0, ClientToken |-> None]
NoSource == [AssetID |-> None, AccountID |-> None, Amount |-> 0, ClientToken |-> None]
NoCall == [done |-> FALSE, val |-> NoRes, err |-> None]

ErrInsufficient == "ErrInsufficient"
ErrReserved == "ErrReserved"
ErrNotFound == "ErrUserInputNotFound"
ErrCancel == "couldn't find reservation"
ErrStore == "store error"

VARIABLES
  nextReservationID,  \* MemoryReserver.nextReservationID
  reservations,       \* MemoryReserver.reservations : rid -> Reservation
  reservationsMu,     \* holder of MemoryReserver.reservationsMu
  accounts,           \* MemoryReserver.accounts : account id -> accountReserver
  accountsMu,         \* holder of MemoryReserver.accountsMu
  reserved,           \* accountReserver.reserved, per accountReserver object
  mu,                 \* holder of accountReserver.mu, per accountReserver object
  idempotency,        \* idempotency.Group : token -> call object
  calls,              \* the call objects: done flag, value, error
  clock,              \* time.Now()
  loc,                \* per goroutine: operation, position, locals
  attempts,           \* history: runs of mr.reserve per token since Forget
  releases            \* history: ar.cancel calls made per reservation id

vars == << nextReservationID, reservations, reservationsMu, accounts, accountsMu,
           reserved, mu, idempotency, calls, clock, loc, attempts, releases >>

Idle == [op |-> None, pc |-> "idle", source |-> NoSource,
         exp |-> 0, rid |-> 0, ar |-> Nil, utxos |-> << >>, held |-> << >>,
         total |-> 0, err |-> None, res |-> NoRes, canceled |-> {},
         now |-> 0, call |-> Nil, leader |-> FALSE, clientToken |-> None]

\* ---- helpers ----
RECURSIVE SumAmounts(_)
SumAmounts(s) == IF s = << >> THEN 0 ELSE Head(s).Amount + SumAmounts(Tail(s))

RECURSIVE SumChange(_)
SumChange(s) == IF s = << >> THEN 0 ELSE Head(s).Amount + SumChange(Tail(s))

OutpointsOf(s) == { s[i].Outpoint : i \in 1 .. Len(s) }

Min(S) == CHOOSE x \in S : \A y \in S : x <= y

\* ORDER BY amount ASC
RECURSIVE OrderByAmount(_)
OrderByAmount(S) ==
  IF S = {} THEN << >>
  ELSE LET u == CHOOSE x \in S : \A y \in S : x.Amount <= y.Amount
       IN << u >> \o OrderByAmount(S \ {u})

findMatchingUTXOs(source) ==
  OrderByAmount({ u \in Store : u.AccountID = source.AccountID
                              /\ u.AssetID = source.AssetID })

findSpecificUTXO(o) == { u \in Store : u.Outpoint = o }

AddInt32(n) == IF n = MaxInt32 THEN (0 - MaxInt32) - 1 ELSE n + 1

\* a sweep that compares the wrong way round
After(t, u) == t > u

Before(t, u) == t < u

\* accountReserver objects some goroutine or the account map still points to
Referenced(accs, l) ==
  { accs[a] : a \in AccountIDs } \cup { l[p].ar : p \in Procs }

\* an unreachable accountReserver is garbage: its memory is a fresh object again
Reclaim(rsv, accs, l) ==
  [d \in DomIds |-> IF d \in Referenced(accs, l) THEN rsv[d] ELSE EmptyMap]

ReferencedCalls(idem, l) ==
  { idem[t] : t \in Tokens } \cup { l[p].call : p \in Procs }

ReclaimCalls(cs, idem, l) ==
  [c \in CallIds |-> IF c \in ReferencedCalls(idem, l) THEN cs[c] ELSE NoCall]

\* number of goroutines that will still draw a reservation id
Pending == Cardinality({ p \in Procs : loc[p].pc \in {"reserve", "reserveUTXO"} })

Init ==
  /\ nextReservationID = 0
  /\ reservations = EmptyMap
  /\ reservationsMu = None
  /\ accounts = [a \in AccountIDs |-> Nil]
  /\ accountsMu = None
  /\ reserved = [d \in DomIds |-> EmptyMap]
  /\ mu = [d \in DomIds |-> None]
  /\ idempotency = [t \in Tokens |-> Nil]
  /\ calls = [c \in CallIds |-> NoCall]
  /\ clock = 0
  /\ loc = [p \in Procs |-> Idle]
  /\ attempts = [t \in Tokens |-> 0]
  /\ releases = EmptyMap

\* ---- time ----
Tick ==
  /\ clock < MaxTime
  /\ clock' = clock + 1
  /\ UNCHANGED << nextReservationID, reservations, reservationsMu, accounts,
                  accountsMu, reserved, mu, idempotency, calls, loc, attempts,
                  releases >>

\* ---- accountReserver ----
\* a walk that forgets the amounts of the candidates it skips
RECURSIVE WalkForgetsHeld(_, _, _, _, _, _, _)
WalkForgetsHeld(heldMap, amount, utxos, i, rsv, unavailable, reservedUTXOs) ==
  IF i > Len(utxos)
  THEN [reserved |-> rsv, unavailable |-> unavailable, reservedUTXOs |-> reservedUTXOs]
  ELSE IF utxos[i].Outpoint \in DOMAIN heldMap
  THEN WalkForgetsHeld(heldMap, amount, utxos, i + 1, rsv, unavailable, reservedUTXOs)
  ELSE IF rsv + utxos[i].Amount >= amount
  THEN [reserved |-> rsv + utxos[i].Amount, unavailable |-> unavailable,
        reservedUTXOs |-> Append(reservedUTXOs, utxos[i])]
  ELSE WalkForgetsHeld(heldMap, amount, utxos, i + 1, rsv + utxos[i].Amount,
                       unavailable, Append(reservedUTXOs, utxos[i]))

\* a walk that does not stop when the request is met
RECURSIVE WalkNoBreak(_, _, _, _, _, _, _)
WalkNoBreak(heldMap, amount, utxos, i, rsv, unavailable, reservedUTXOs) ==
  IF i > Len(utxos)
  THEN [reserved |-> rsv, unavailable |-> unavailable, reservedUTXOs |-> reservedUTXOs]
  ELSE IF utxos[i].Outpoint \in DOMAIN heldMap
  THEN WalkNoBreak(heldMap, amount, utxos, i + 1, rsv, unavailable + utxos[i].Amount,
                   reservedUTXOs)
  ELSE WalkNoBreak(heldMap, amount, utxos, i + 1, rsv + utxos[i].Amount, unavailable,
                   Append(reservedUTXOs, utxos[i]))

\* the candidate walk of accountReserver.reserve
RECURSIVE Walk(_, _, _, _, _, _, _)
Walk(heldMap, amount, utxos, i, rsv, unavailable, reservedUTXOs) ==
  IF i > Len(utxos)
  THEN [reserved |-> rsv, unavailable |-> unavailable, reservedUTXOs |-> reservedUTXOs]
  ELSE IF utxos[i].Outpoint \in DOMAIN heldMap
  THEN Walk(heldMap, amount, utxos, i + 1, rsv, unavailable + utxos[i].Amount,
            reservedUTXOs)
  ELSE IF rsv + utxos[i].Amount >= amount
  THEN [reserved |-> rsv + utxos[i].Amount, unavailable |-> unavailable,
        reservedUTXOs |-> Append(reservedUTXOs, utxos[i])]
  ELSE Walk(heldMap, amount, utxos, i + 1, rsv + utxos[i].Amount, unavailable,
            Append(reservedUTXOs, utxos[i]))

Put(heldMap, S, rid) ==
  [o \in DOMAIN heldMap \cup S |-> IF o \in S THEN rid ELSE heldMap[o]]

Delete(heldMap, S) == [o \in DOMAIN heldMap \ S |-> heldMap[o]]

\* an ar.reserve that marks the candidates as it walks and fails afterwards
accountReserver_reserveAsItWalks(heldMap, rid, src, utxos) ==
  LET w == Walk(heldMap, src.Amount, utxos, 1, 0, 0, << >>)
      marked == Put(heldMap, OutpointsOf(w.reservedUTXOs), rid)
  IN IF w.reserved + w.unavailable < src.Amount
     THEN [err |-> ErrInsufficient, utxos |-> << >>, total |-> 0, reserved |-> marked]
     ELSE IF w.reserved < src.Amount
     THEN [err |-> ErrReserved, utxos |-> << >>, total |-> 0, reserved |-> marked]
     ELSE [err |-> None, utxos |-> w.reservedUTXOs, total |-> w.reserved,
           reserved |-> marked]

\* accountReserver.reserve: result and the held-set it leaves
accountReserver_reserve(heldMap, rid, src, utxos) ==
  LET w == Walk(heldMap, src.Amount, utxos, 1, 0, 0, << >>)
  IN IF w.reserved + w.unavailable < src.Amount
     THEN [err |-> ErrInsufficient, utxos |-> << >>, total |-> 0, reserved |-> heldMap]
     ELSE IF w.reserved < src.Amount
     THEN [err |-> ErrReserved, utxos |-> << >>, total |-> 0, reserved |-> heldMap]
     ELSE [err |-> None, utxos |-> w.reservedUTXOs, total |-> w.reserved,
           reserved |-> Put(heldMap, OutpointsOf(w.reservedUTXOs), rid)]

\* accountReserver.reserveUTXO
accountReserver_reserveUTXO(heldMap, rid, utxo) ==
  IF utxo.Outpoint \in DOMAIN heldMap
  THEN [err |-> ErrReserved, reserved |-> heldMap]
  ELSE [err |-> None, reserved |-> Put(heldMap, {utxo.Outpoint}, rid)]

\* a release that misses the first outpoint of the reservation
accountReserver_cancelTail(heldMap, res) ==
  Delete(heldMap, OutpointsOf(Tail(res.UTXOs)))

\* accountReserver.cancel
accountReserver_cancel(heldMap, res) == Delete(heldMap, OutpointsOf(res.UTXOs))

\* ---- idempotency.Group ----
Forget(idem, t) == [idem EXCEPT ![t] = Nil]

FreeCall == Min(CallIds \ ReferencedCalls(idempotency, loc))

\* ---- MemoryReserver.Reserve ----
Sources ==
  [AssetID : AssetIDs, AccountID : AccountIDs, Amount : 0 .. MaxAmount,
   ClientToken : Tokens \cup {None}]

\* a Reserve that calls mr.reserve whether or not it has a client token
ReserveNoOnce(p, source, exp) ==
  /\ loc[p].pc = "idle"
  /\ nextReservationID + Pending < MaxRid
  /\ loc' = [loc EXCEPT ![p] = [Idle EXCEPT !.op = "Reserve", !.pc = "reserve",
                                          !.source = source, !.exp = exp]]
  /\ attempts' = IF source.ClientToken = None THEN attempts
                 ELSE [attempts EXCEPT ![source.ClientToken] = @ + 1]
  /\ UNCHANGED << nextReservationID, reservations, reservationsMu, accounts,
                  accountsMu, reserved, mu, idempotency, calls, clock, releases >>

\* Reserve up to the point where mr.reserve starts or the caller joins a
\* call already made with its token (idempotency.Once); the bound on
\* reservation ids stops only callers that would draw one
Reserve(p, source, exp) ==
  /\ loc[p].pc = "idle"
  /\ \/ nextReservationID + Pending < MaxRid
     \/ source.ClientToken # None /\ idempotency[source.ClientToken] # Nil
  /\ IF source.ClientToken = None
     THEN /\ loc' = [loc EXCEPT ![p] = [Idle EXCEPT !.op = "Reserve", !.pc = "reserve",
                                         !.source = source, !.exp = exp]]
          /\ UNCHANGED << idempotency, calls, attempts >>
     ELSE IF idempotency[source.ClientToken] # Nil
     THEN /\ loc' = [loc EXCEPT ![p] = [Idle EXCEPT !.op = "Reserve", !.pc = "onceWait",
                                         !.source = source, !.exp = exp,
                                         !.call = idempotency[source.ClientToken]]]
          /\ UNCHANGED << idempotency, calls, attempts >>
     ELSE /\ loc' = [loc EXCEPT ![p] = [Idle EXCEPT !.op = "Reserve", !.pc = "reserve",
                                         !.source = source, !.exp = exp,
                                         !.call = FreeCall, !.leader = TRUE]]
          /\ idempotency' = [idempotency EXCEPT ![source.ClientToken] = FreeCall]
          /\ calls' = [calls EXCEPT ![FreeCall] = NoCall]
          /\ attempts' = [attempts EXCEPT ![source.ClientToken] = @ + 1]
  /\ UNCHANGED << nextReservationID, reservations, reservationsMu, accounts,
                  accountsMu, reserved, mu, clock, releases >>

\* where a finished mr.reserve goes: back through Once, or straight out
AfterReserve(p) == IF loc[p].leader THEN "onceDone" ELSE "done"

\* mr.reserve: findMatchingUTXOs, then atomic.AddInt32
reserve(p) ==
  /\ loc[p].pc = "reserve"
  /\ \E ok \in BOOLEAN :
       IF ok
       THEN /\ nextReservationID' = AddInt32(nextReservationID)
            /\ loc' = [loc EXCEPT ![p].pc = "account",
                                  ![p].utxos = findMatchingUTXOs(loc[p].source),
                                  ![p].rid = AddInt32(nextReservationID)]
       ELSE /\ loc' = [loc EXCEPT ![p].pc = AfterReserve(p), ![p].err = ErrStore,
                                  ![p].exp = 0]
            /\ UNCHANGED nextReservationID
  /\ UNCHANGED << reservations, reservationsMu, accounts, accountsMu, reserved, mu,
                  idempotency, calls, clock, attempts, releases >>

\* ---- MemoryReserver.account ----
AccountOf(p) ==
  IF loc[p].op = "Reserve" THEN loc[p].source.AccountID
  ELSE IF loc[p].op = "ReserveUTXO" THEN loc[p].utxos[1].AccountID
  ELSE loc[p].res.AccountID

FreeDom == Min(DomIds \ Referenced(accounts, loc))

account(p) ==
  /\ loc[p].pc = "account"
  /\ accountsMu = None
  /\ accountsMu' = p
  /\ IF accounts[AccountOf(p)] # Nil
     THEN /\ loc' = [loc EXCEPT ![p].pc = "accountUnlock",
                                ![p].ar = accounts[AccountOf(p)]]
          /\ UNCHANGED accounts
     ELSE /\ loc' = [loc EXCEPT ![p].pc = "accountUnlock", ![p].ar = FreeDom]
          /\ accounts' = [accounts EXCEPT ![AccountOf(p)] = FreeDom]
  /\ UNCHANGED << nextReservationID, reservations, reservationsMu, reserved, mu,
                  idempotency, calls, clock, attempts, releases >>

\* an account() that returns with accountsMu still locked
accountKeepsLock(p) ==
  /\ loc[p].pc = "accountUnlock"
  /\ loc' = [loc EXCEPT ![p].pc =
               IF loc[p].op = "Reserve" THEN "arReserve"
               ELSE IF loc[p].op = "ReserveUTXO" THEN "arReserveUTXO"
               ELSE "arCancel"]
  /\ UNCHANGED << nextReservationID, reservations, reservationsMu, accounts,
                  accountsMu, reserved, mu, idempotency, calls, clock, attempts,
                  releases >>

accountUnlock(p) ==
  /\ loc[p].pc = "accountUnlock"
  /\ accountsMu' = None
  /\ loc' = [loc EXCEPT ![p].pc =
               IF loc[p].op = "Reserve" THEN "arReserve"
               ELSE IF loc[p].op = "ReserveUTXO" THEN "arReserveUTXO"
               ELSE "arCancel"]
  /\ UNCHANGED << nextReservationID, reservations, reservationsMu, accounts, reserved,
                  mu, idempotency, calls, clock, attempts, releases >>

\* ar.reserve under ar.mu
arReserve(p) ==
  /\ loc[p].pc = "arReserve"
  /\ mu[loc[p].ar] = None
  /\ LET r == accountReserver_reserve(reserved[loc[p].ar], loc[p].rid,
                                      loc[p].source, loc[p].utxos)
     IN /\ reserved' = [reserved EXCEPT ![loc[p].ar] = r.reserved]
        /\ loc' = [loc EXCEPT ![p].pc = "arUnlock", ![p].held = r.utxos,
                              ![p].total = r.total, ![p].err = r.err,
                              ![p].utxos = << >>]
  /\ mu' = [mu EXCEPT ![loc[p].ar] = p]
  /\ UNCHANGED << nextReservationID, reservations, reservationsMu, accounts,
                  accountsMu, idempotency, calls, clock, attempts, releases >>

\* ar.reserveUTXO under ar.mu
arReserveUTXO(p) ==
  /\ loc[p].pc = "arReserveUTXO"
  /\ mu[loc[p].ar] = None
  /\ LET r == accountReserver_reserveUTXO(reserved[loc[p].ar], loc[p].rid,
                                          loc[p].utxos[1])
     IN /\ reserved' = [reserved EXCEPT ![loc[p].ar] = r.reserved]
        /\ loc' = [loc EXCEPT ![p].pc = "arUnlock", ![p].err = r.err,
                              ![p].held = IF r.err = None THEN loc[p].utxos ELSE << >>]
  /\ mu' = [mu EXCEPT ![loc[p].ar] = p]
  /\ UNCHANGED << nextReservationID, reservations, reservationsMu, accounts,
                  accountsMu, idempotency, calls, clock, attempts, releases >>

\* ar.cancel under ar.mu
arCancel(p) ==
  /\ loc[p].pc = "arCancel"
  /\ mu[loc[p].ar] = None
  /\ reserved' = [reserved EXCEPT ![loc[p].ar] = accountReserver_cancel(@, loc[p].res)]
  /\ mu' = [mu EXCEPT ![loc[p].ar] = p]
  /\ loc' = [loc EXCEPT ![p].pc = "arUnlock"]
  /\ releases' = [r \in DOMAIN releases \cup {loc[p].res.ID} |->
                    IF r = loc[p].res.ID
                    THEN (IF r \in DOMAIN releases THEN releases[r] ELSE 0) + 1
                    ELSE releases[r]]
  /\ UNCHANGED << nextReservationID, reservations, reservationsMu, accounts,
                  accountsMu, idempotency, calls, clock, attempts >>

\* the next entry of the canceled slice, or the cleanup of the account map
NextCanceled(p, l, S) ==
  IF S = {}
  THEN loc' = [l EXCEPT ![p].pc = "gc", ![p].res = NoRes, ![p].canceled = {}]
  ELSE \E r \in S :
         loc' = [l EXCEPT ![p].pc = "account", ![p].res = r, ![p].canceled = S \ {r}]

\* the deferred ar.mu.Unlock and the return to the caller of the method
arUnlock(p) ==
  /\ loc[p].pc = "arUnlock"
  /\ mu' = [mu EXCEPT ![loc[p].ar] = None]
  /\ IF loc[p].op = "ExpireReservations" /\ loc[p].res.ClientToken = None
     THEN NextCanceled(p, [loc EXCEPT ![p].ar = Nil], loc[p].canceled)
     ELSE loc' = [loc EXCEPT ![p] =
               IF loc[p].op \in {"Cancel", "ExpireReservations"}
               THEN [@ EXCEPT !.ar = Nil,
                              !.pc = IF loc[p].res.ClientToken # None
                                     THEN "forget" ELSE "done"]
               ELSE IF loc[p].err = None
               THEN [@ EXCEPT !.ar = Nil,
                              !.pc = IF loc[p].op = "Reserve" THEN "save" ELSE "saveUTXO"]
               ELSE [@ EXCEPT !.ar = Nil, !.pc = AfterReserve(p), !.rid = 0,
                              !.exp = 0, !.utxos = << >>]]
  /\ reserved' = Reclaim(reserved, accounts, loc')
  /\ UNCHANGED << nextReservationID, reservations, reservationsMu, accounts,
                  accountsMu, idempotency, calls, clock, attempts, releases >>

\* change that is also made when nothing is left over
ChangeAlways(source, total) ==
  IF total >= source.Amount
  THEN << [Source |-> source, Amount |-> total - source.Amount] >>
  ELSE << >>

\* Make change if necessary
Change(source, total) ==
  IF total > source.Amount
  THEN << [Source |-> source, Amount |-> total - source.Amount] >>
  ELSE << >>

\* mr.reserve: record the reservation and make change, under reservationsMu
save(p) ==
  /\ loc[p].pc = "save"
  /\ reservationsMu = None
  /\ reservationsMu' = p
  /\ LET source == loc[p].source
         res == [ID |-> loc[p].rid, AccountID |-> source.AccountID,
                 UTXOs |-> loc[p].held,
                 Change |-> Change(source, loc[p].total),
                 Expiry |-> loc[p].exp, ClientToken |-> source.ClientToken]
     IN /\ reservations' = [r \in DOMAIN reservations \cup {res.ID} |->
                              IF r = res.ID THEN res ELSE reservations[r]]
        /\ loc' = [loc EXCEPT ![p].pc = "saveUnlock", ![p].res = res,
                              ![p].held = << >>, ![p].total = 0, ![p].rid = 0,
                              ![p].exp = 0]
  /\ UNCHANGED << nextReservationID, accounts, accountsMu, reserved, mu, idempotency,
                  calls, clock, attempts, releases >>

\* the deferred reservationsMu.Unlock of mr.reserve
saveUnlock(p) ==
  /\ loc[p].pc = "saveUnlock"
  /\ reservationsMu' = None
  /\ loc' = [loc EXCEPT ![p].pc = AfterReserve(p)]
  /\ UNCHANGED << nextReservationID, reservations, accounts, accountsMu, reserved, mu,
                  idempotency, calls, clock, attempts, releases >>

\* idempotency.Once: the call that ran fn publishes its result
OnceDone(p) ==
  /\ loc[p].pc = "onceDone"
  /\ calls' = [calls EXCEPT ![loc[p].call] =
                 [done |-> TRUE, val |-> loc[p].res, err |-> loc[p].err]]
  /\ loc' = [loc EXCEPT ![p].pc = "done"]
  /\ UNCHANGED << nextReservationID, reservations, reservationsMu, accounts,
                  accountsMu, reserved, mu, idempotency, clock, attempts,
                  releases >>

\* idempotency.Once: a caller that found a call for its token waits for it
OnceWait(p) ==
  /\ loc[p].pc = "onceWait"
  /\ calls[loc[p].call].done
  /\ loc' = [loc EXCEPT ![p].pc = "done", ![p].res = calls[loc[p].call].val,
                        ![p].err = calls[loc[p].call].err]
  /\ UNCHANGED << nextReservationID, reservations, reservationsMu, accounts,
                  accountsMu, reserved, mu, idempotency, calls, clock, attempts,
                  releases >>

\* ---- MemoryReserver.ReserveUTXO ----
\* findSpecificUTXO, then atomic.AddInt32; clientToken is a parameter that
\* no statement of the method reads
ReserveUTXO(p, o, clientToken, exp) ==
  /\ loc[p].pc = "idle"
  /\ nextReservationID + Pending < MaxRid
  /\ LET call == [Idle EXCEPT !.op = "ReserveUTXO", !.clientToken = clientToken]
     IN \E ok \in BOOLEAN :
          IF ~ok
          THEN /\ loc' = [loc EXCEPT ![p] = [call EXCEPT !.pc = "done", !.err = ErrStore]]
               /\ UNCHANGED nextReservationID
          ELSE IF findSpecificUTXO(o) = {}
          THEN /\ loc' = [loc EXCEPT ![p] = [call EXCEPT !.pc = "done",
                                                         !.err = ErrNotFound]]
               /\ UNCHANGED nextReservationID
          ELSE /\ nextReservationID' = AddInt32(nextReservationID)
               /\ loc' = [loc EXCEPT ![p] =
                            [call EXCEPT !.pc = "account", !.exp = exp,
                                         !.rid = AddInt32(nextReservationID),
                                         !.utxos = << CHOOSE u \in findSpecificUTXO(o) : TRUE >>]]
  /\ UNCHANGED << reservations, reservationsMu, accounts, accountsMu, reserved, mu,
                  idempotency, calls, clock, attempts, releases >>

saveUTXO(p) ==
  /\ loc[p].pc = "saveUTXO"
  /\ reservationsMu = None
  /\ reservationsMu' = p
  /\ LET res == [ID |-> loc[p].rid, AccountID |-> loc[p].utxos[1].AccountID,
                 UTXOs |-> loc[p].utxos, Change |-> << >>, Expiry |-> loc[p].exp,
                 ClientToken |-> None]
     IN /\ reservations' = [r \in DOMAIN reservations \cup {res.ID} |->
                              IF r = res.ID THEN res ELSE reservations[r]]
        /\ loc' = [loc EXCEPT ![p].pc = "saveUTXOUnlock", ![p].res = res,
                              ![p].utxos = << >>, ![p].held = << >>, ![p].rid = 0,
                              ![p].exp = 0]
  /\ UNCHANGED << nextReservationID, accounts, accountsMu, reserved, mu, idempotency,
                  calls, clock, attempts, releases >>

saveUTXOUnlock(p) ==
  /\ loc[p].pc = "saveUTXOUnlock"
  /\ reservationsMu' = None
  /\ loc' = [loc EXCEPT ![p].pc = "done"]
  /\ UNCHANGED << nextReservationID, reservations, accounts, accountsMu, reserved, mu,
                  idempotency, calls, clock, attempts, releases >>

\* a Cancel that looks the reservation up and leaves it recorded
CancelKeepsRecord(p, rid) ==
  /\ loc[p].pc = "idle"
  /\ reservationsMu = None
  /\ reservationsMu' = p
  /\ LET ok == rid \in DOMAIN reservations
     IN loc' = [loc EXCEPT ![p] =
                  [Idle EXCEPT !.op = "Cancel", !.pc = "cancelUnlock", !.rid = rid,
                               !.res = IF ok THEN reservations[rid] ELSE NoRes,
                               !.err = IF ok THEN None ELSE ErrCancel]]
  /\ UNCHANGED << nextReservationID, reservations, accounts, accountsMu, reserved, mu,
                  idempotency, calls, clock, attempts, releases >>

\* ---- MemoryReserver.Cancel ----
Cancel(p, rid) ==
  /\ loc[p].pc = "idle"
  /\ reservationsMu = None
  /\ reservationsMu' = p
  /\ LET ok == rid \in DOMAIN reservations
     IN /\ loc' = [loc EXCEPT ![p] =
                     [Idle EXCEPT !.op = "Cancel", !.pc = "cancelUnlock", !.rid = rid,
                                  !.res = IF ok THEN reservations[rid] ELSE NoRes,
                                  !.err = IF ok THEN None ELSE ErrCancel]]
        /\ reservations' = [r \in DOMAIN reservations \ {rid} |-> reservations[r]]
  /\ UNCHANGED << nextReservationID, accounts, accountsMu, reserved, mu, idempotency,
                  calls, clock, attempts, releases >>

\* a Cancel that goes on with mr.reservationsMu still locked
cancelKeepsLock(p) ==
  /\ loc[p].pc = "cancelUnlock"
  /\ loc' = [loc EXCEPT ![p].pc = IF loc[p].err # None THEN "done" ELSE "account"]
  /\ UNCHANGED << nextReservationID, reservations, reservationsMu, accounts,
                  accountsMu, reserved, mu, idempotency, calls, clock, attempts,
                  releases >>

cancelUnlock(p) ==
  /\ loc[p].pc = "cancelUnlock"
  /\ reservationsMu' = None
  /\ loc' = [loc EXCEPT ![p].pc = IF loc[p].err # None THEN "done" ELSE "account"]
  /\ UNCHANGED << nextReservationID, reservations, accounts, accountsMu, reserved, mu,
                  idempotency, calls, clock, attempts, releases >>

\* a Cancel or sweep that leaves the token remembered
forgetNothing(p) ==
  /\ loc[p].pc = "forget"
  /\ IF loc[p].op = "Cancel"
     THEN loc' = [loc EXCEPT ![p].pc = "done"]
     ELSE NextCanceled(p, loc, loc[p].canceled)
  /\ UNCHANGED << nextReservationID, reservations, reservationsMu, accounts,
                  accountsMu, reserved, mu, idempotency, calls, clock, attempts,
                  releases >>

\* if res.ClientToken != nil { mr.idempotency.Forget(*res.ClientToken) }
forget(p) ==
  /\ loc[p].pc = "forget"
  /\ idempotency' = Forget(idempotency, loc[p].res.ClientToken)
  /\ attempts' = [attempts EXCEPT ![loc[p].res.ClientToken] = 0]
  /\ IF loc[p].op = "Cancel"
     THEN loc' = [loc EXCEPT ![p].pc = "done"]
     ELSE NextCanceled(p, loc, loc[p].canceled)
  /\ calls' = ReclaimCalls(calls, idempotency', loc')
  /\ UNCHANGED << nextReservationID, reservations, reservationsMu, accounts,
                  accountsMu, reserved, mu, clock, releases >>

\* ---- MemoryReserver.ExpireReservations ----
Expired(now) == { r \in DOMAIN reservations : Before(reservations[r].Expiry, now) }

ExpireReservations(p) ==
  /\ loc[p].pc = "idle"
  /\ reservationsMu = None
  /\ reservationsMu' = p
  /\ loc' = [loc EXCEPT ![p] =
               [Idle EXCEPT !.op = "ExpireReservations", !.pc = "expireUnlock",
                            !.now = clock,
                            !.canceled = { reservations[r] : r \in Expired(clock) }]]
  /\ reservations' = [r \in DOMAIN reservations \ Expired(clock) |-> reservations[r]]
  /\ UNCHANGED << nextReservationID, accounts, accountsMu, reserved, mu, idempotency,
                  calls, clock, attempts, releases >>

expireUnlock(p) ==
  /\ loc[p].pc = "expireUnlock"
  /\ reservationsMu' = None
  /\ NextCanceled(p, loc, loc[p].canceled)
  /\ UNCHANGED << nextReservationID, reservations, accounts, accountsMu, reserved, mu,
                  idempotency, calls, clock, attempts, releases >>

\* cleanup of account reservers that have nothing reserved, under accountsMu;
\* len(ar.reserved) is read without ar.mu and sees the held-set of this instant
gc(p) ==
  /\ loc[p].pc = "gc"
  /\ accountsMu = None
  /\ accountsMu' = p
  /\ accounts' = [a \in AccountIDs |->
                    IF accounts[a] # Nil /\ DOMAIN reserved[accounts[a]] = {}
                    THEN Nil ELSE accounts[a]]
  /\ loc' = [loc EXCEPT ![p].pc = "gcUnlock"]
  /\ reserved' = Reclaim(reserved, accounts', loc')
  /\ UNCHANGED << nextReservationID, reservations, reservationsMu, mu, idempotency,
                  calls, clock, attempts, releases >>

gcUnlock(p) ==
  /\ loc[p].pc = "gcUnlock"
  /\ accountsMu' = None
  /\ loc' = [loc EXCEPT ![p].pc = "done"]
  /\ UNCHANGED << nextReservationID, reservations, reservationsMu, accounts, reserved,
                  mu, idempotency, calls, clock, attempts, releases >>

\* the call returns to its caller
Return(p) ==
  /\ loc[p].pc = "done"
  /\ loc' = [loc EXCEPT ![p] = Idle]
  /\ calls' = ReclaimCalls(calls, idempotency, loc')
  /\ UNCHANGED << nextReservationID, reservations, reservationsMu, accounts,
                  accountsMu, reserved, mu, idempotency, clock, attempts,
                  releases >>

\* A goroutine that holds a mutex, or that is about to hand its result to its
\* caller, takes its next step before any other goroutine is scheduled: that
\* step (an Unlock, a return) writes nothing another goroutine reads except the
\* mutex it frees, so it commutes to the left of every step of the others and
\* each interleaving of the program is equivalent to one of these.
Quiet ==
  \A p \in Procs :
    loc[p].pc \notin {"accountUnlock", "arUnlock", "saveUnlock", "saveUTXOUnlock",
                      "cancelUnlock", "expireUnlock", "gcUnlock", "done"}

\* Callers without client tokens: Reserve, ReserveUTXO, Cancel and the sweeper.
Next ==
  \/ Quiet /\ Tick
  \/ Quiet /\ \E p \in Procs, source \in Sources, exp \in Expiries :
                source.ClientToken = None /\ Reserve(p, source, exp)
  \/ Quiet /\ \E p \in Procs : reserve(p)
  \/ Quiet /\ \E p \in Procs : account(p)
  \/ Quiet /\ \E p \in Procs : arReserve(p)
  \/ Quiet /\ \E p \in Procs : arReserveUTXO(p)
  \/ Quiet /\ \E p \in Procs : arCancel(p)
  \/ Quiet /\ \E p \in Procs : save(p)
  \/ Quiet /\ \E p \in Procs, o \in Outpoints \cup {MissingOutpoint},
                 clientToken \in Tokens \cup {None}, exp \in Expiries :
                ReserveUTXO(p, o, clientToken, exp)
  \/ Quiet /\ \E p \in Procs : saveUTXO(p)
  \/ Quiet /\ \E p \in Procs, rid \in 1 .. MaxRid : Cancel(p, rid)
  \/ Quiet /\ \E p \in Sweepers : ExpireReservations(p)
  \/ Quiet /\ \E p \in Procs : gc(p)
  \/ \E p \in Procs : accountUnlock(p)
  \/ \E p \in Procs : arUnlock(p)
  \/ \E p \in Procs : saveUnlock(p)
  \/ \E p \in Procs : saveUTXOUnlock(p)
  \/ \E p \in Procs : cancelUnlock(p)
  \/ \E p \in Procs : expireUnlock(p)
  \/ \E p \in Procs : gcUnlock(p)
  \/ \E p \in Procs : Return(p)

Spec == Init /\ [][Next]_vars

\* Callers that all send a client token: Reserve, Cancel and the sweeper.
NextIdem ==
  \/ Quiet /\ Tick
  \/ Quiet /\ \E p \in Procs, source \in Sources, exp \in Expiries :
                source.ClientToken # None /\ Reserve(p, source, exp)
  \/ Quiet /\ \E p \in Procs : reserve(p)
  \/ Quiet /\ \E p \in Procs : account(p)
  \/ Quiet /\ \E p \in Procs : arReserve(p)
  \/ Quiet /\ \E p \in Procs : arCancel(p)
  \/ Quiet /\ \E p \in Procs : save(p)
  \/ Quiet /\ \E p \in Procs : OnceDone(p)
  \/ Quiet /\ \E p \in Procs : OnceWait(p)
  \/ Quiet /\ \E p \in Procs, rid \in 1 .. MaxRid : Cancel(p, rid)
  \/ Quiet /\ \E p \in Procs : forget(p)
  \/ Quiet /\ \E p \in Sweepers : ExpireReservations(p)
  \/ Quiet /\ \E p \in Procs : gc(p)
  \/ \E p \in Procs : accountUnlock(p)
  \/ \E p \in Procs : arUnlock(p)
  \/ \E p \in Procs : saveUnlock(p)
  \/ \E p \in Procs : cancelUnlock(p)
  \/ \E p \in Procs : expireUnlock(p)
  \/ \E p \in Procs : gcUnlock(p)
  \/ \E p \in Procs : Return(p)

SpecIdem == Init /\ [][NextIdem]_vars

\* Callers without client tokens: Reserve, Cancel and the sweeper.
NextReserve ==
  \/ Quiet /\ Tick
  \/ Quiet /\ \E p \in Procs, source \in Sources, exp \in Expiries :
                source.ClientToken = None /\ Reserve(p, source, exp)
  \/ Quiet /\ \E p \in Procs : reserve(p)
  \/ Quiet /\ \E p \in Procs : account(p)
  \/ Quiet /\ \E p \in Procs : arReserve(p)
  \/ Quiet /\ \E p \in Procs : arCancel(p)
  \/ Quiet /\ \E p \in Procs : save(p)
  \/ Quiet /\ \E p \in Procs, rid \in 1 .. MaxRid : Cancel(p, rid)
  \/ Quiet /\ \E p \in Sweepers : ExpireReservations(p)
  \/ Quiet /\ \E p \in Procs : gc(p)
  \/ \E p \in Procs : accountUnlock(p)
  \/ \E p \in Procs : arUnlock(p)
  \/ \E p \in Procs : saveUnlock(p)
  \/ \E p \in Procs : cancelUnlock(p)
  \/ \E p \in Procs : expireUnlock(p)
  \/ \E p \in Procs : gcUnlock(p)
  \/ \E p \in Procs : Return(p)

SpecReserve == Init /\ [][NextReserve]_vars

\* ---- accountReserver.reserve on its own ----
MaxCandidates == 3     \* candidates the store returns
MaxUTXOAmount == 2     \* largest amount of one candidate
MaxRequest == 7        \* largest amount asked for

OutpointName(i) == << "o1", "o2", "o3", "o4", "o5" >>[i]

\* candidate lists as findMatchingUTXOs returns them: ORDER BY amount ASC
Candidates ==
  UNION { { c \in [1 .. n -> [Outpoint : {"o1", "o2", "o3", "o4", "o5"},
                              AccountID : {"a"}, AssetID : {"x"},
                              Amount : 0 .. MaxUTXOAmount]] :
              /\ \A i \in 1 .. n : c[i].Outpoint = OutpointName(i)
              /\ \A i \in 1 .. n - 1 : c[i].Amount <= c[i + 1].Amount }
          : n \in 0 .. MaxCandidates }

\* One goroutine is about to run ar.reserve with reservation id 2 on the
\* registered accountReserver of account "a", where reservation 1 holds some
\* of the candidates.
InitSelect ==
  \E utxos \in Candidates, amount \in 0 .. MaxRequest :
  \E H \in SUBSET (1 .. Len(utxos)) :
    LET heldUTXOs == [i \in 1 .. Cardinality(H) |->
                        utxos[CHOOSE k \in H :
                                Cardinality({ j \in H : j < k }) = i - 1]]
        source == [AssetID |-> "x", AccountID |-> "a", Amount |-> amount,
                   ClientToken |-> None]
    IN /\ nextReservationID = 2
       /\ reservations =
            IF H = {} THEN EmptyMap
            ELSE [r \in {1} |-> [ID |-> 1, AccountID |-> "a", UTXOs |-> heldUTXOs,
                                 Change |-> << >>, Expiry |-> MaxExp,
                                 ClientToken |-> None]]
       /\ reservationsMu = None
       /\ accounts = [a \in AccountIDs |-> IF a = "a" THEN 1 ELSE Nil]
       /\ accountsMu = None
       /\ reserved = [d \in DomIds |->
                        IF d = 1 THEN [o \in OutpointsOf(heldUTXOs) |-> 1]
                        ELSE EmptyMap]
       /\ mu = [d \in DomIds |-> None]
       /\ idempotency = [t \in Tokens |-> Nil]
       /\ calls = [c \in CallIds |-> NoCall]
       /\ clock = 0
       /\ loc = [p \in Procs |->
                   IF p = "p1"
                   THEN [Idle EXCEPT !.op = "Reserve", !.pc = "arReserve",
                                     !.source = source, !.exp = MaxExp, !.rid = 2,
                                     !.ar = 1, !.utxos = utxos]
                   ELSE Idle]
       /\ attempts = [t \in Tokens |-> 0]
       /\ releases = EmptyMap

NextSelect == \E p \in Procs : arReserve(p)

SpecSelect == InitSelect /\ [][NextSelect]_vars

\* ---- C1 ----
\* C1: mutual exclusion: no outpoint is referenced by two distinct live
\* Reservations.
NoDoubleReservation ==
  \A r1, r2 \in DOMAIN reservations :
    r1 # r2 => OutpointsOf(reservations[r1].UTXOs)
                 \cap OutpointsOf(reservations[r2].UTXOs) = {}

\* ---- C2 ----
\* C2: while a token is remembered there is one run of mr.reserve for it, one
\* registry record carrying it, and every Reserve that finishes with the call
\* object remembered for its token returns that call's reservation or error.
IdempotentReserve ==
  /\ \A t \in Tokens : attempts[t] <= 1
  /\ \A t \in Tokens :
       Cardinality({ r \in DOMAIN reservations : reservations[r].ClientToken = t }) <= 1
  /\ \A p \in Procs :
       ( /\ loc[p].pc = "done"
         /\ loc[p].op = "Reserve"
         /\ loc[p].source.ClientToken # None
         /\ idempotency[loc[p].source.ClientToken] = loc[p].call )
       => /\ calls[loc[p].call].done
          /\ loc[p].res = calls[loc[p].call].val
          /\ loc[p].err = calls[loc[p].call].err

\* a second caller has received the reservation made by the first
IdempotentReserveWitness ==
  \E p \in Procs :
    /\ loc[p].pc = "done" /\ loc[p].op = "Reserve" /\ ~loc[p].leader
    /\ loc[p].call # Nil /\ loc[p].err = None /\ loc[p].res.ID >= 1
    /\ loc[p].res.ID \in DOMAIN reservations

\* ---- C3 ----
\* reservation ids some call is still working on
InFlight ==
  { loc[p].rid : p \in { q \in Procs : loc[q].op \in {"Reserve", "ReserveUTXO"} } }
  \cup { loc[p].res.ID :
           p \in { q \in Procs : loc[q].op \in {"Cancel", "ExpireReservations"}
                                 /\ loc[q].pc # "done" } }
  \cup UNION { { r.ID : r \in loc[p].canceled } : p \in Procs }

\* ids that were handed out, are no longer recorded, and whose Cancel or sweep
\* has finished with them
Ended ==
  { r \in 1 .. nextReservationID : r \notin DOMAIN reservations /\ r \notin InFlight }

\* C3: the call remembered for a token never stands for a Reservation whose
\* Cancel or sweep has returned, so a Reserve with that token starts a fresh
\* attempt and does not return the removed Reservation.
TokenForgottenAfterEnd ==
  /\ \A t \in Tokens :
       idempotency[t] # Nil =>
         ~( /\ calls[idempotency[t]].done
            /\ calls[idempotency[t]].err = None
            /\ calls[idempotency[t]].val.ID \in Ended )
  /\ \A p \in Procs :
       ( /\ loc[p].op = "Reserve" /\ loc[p].pc \in {"onceDone", "done"}
         /\ loc[p].err = None
         /\ loc[p].source.ClientToken # None
         /\ idempotency[loc[p].source.ClientToken] = loc[p].call )
       => loc[p].res.ID \notin Ended

\* reservation 1 was released and has ended, and its token now stands for the
\* later reservation 2
TokenReuseWitness ==
  \E t \in Tokens :
    /\ idempotency[t] # Nil
    /\ calls[idempotency[t]].done /\ calls[idempotency[t]].err = None
    /\ calls[idempotency[t]].val.ID = 2
    /\ 1 \in DOMAIN releases /\ 1 \in Ended

\* ---- C4 ----
Balanced(res, source) ==
  /\ SumAmounts(res.UTXOs) = source.Amount + SumChange(res.Change)
  /\ Len(res.Change) <= 1
  /\ (Len(res.Change) = 1) <=> (SumAmounts(res.UTXOs) > source.Amount)

\* C4 as stated: every successful Reserve(source, exp) returns a Reservation
\* whose UTXO amounts sum to source.Amount plus its change, with one Change
\* entry exactly when the sum exceeds source.Amount.
ConservationEveryReserve ==
  \A p \in Procs :
    (loc[p].pc = "done" /\ loc[p].op = "Reserve" /\ loc[p].err = None)
    => Balanced(loc[p].res, loc[p].source)

\* C4: as amended: the same for every successful Reserve that ran
\* mr.reserve itself (no client token, or the first call with its token).
ConservationOwnAttempt ==
  \A p \in Procs :
    ( /\ loc[p].pc = "done" /\ loc[p].op = "Reserve" /\ loc[p].err = None
      /\ (loc[p].leader \/ loc[p].source.ClientToken = None) )
    => Balanced(loc[p].res, loc[p].source)

ConservationWitness ==
  \E p \in Procs :
    /\ loc[p].pc = "done" /\ loc[p].op = "Reserve" /\ loc[p].err = None
    /\ loc[p].leader
    /\ Len(loc[p].res.UTXOs) = 2 /\ Len(loc[p].res.Change) = 1

\* ---- C5 ----
\* what one run of ar.reserve by p starts from
FreeOf(p) ==
  LET NotHeld(u) == u.Outpoint \notin DOMAIN reserved[loc[p].ar]
  IN SelectSeq(loc[p].utxos, NotHeld)

RunsArReserve(p) == loc[p].pc = "arReserve" /\ loc'[p].pc = "arUnlock"

\* C5: ar.reserve fails with ErrInsufficient exactly when all candidates, held
\* or not, sum to less than the requested amount, with ErrReserved exactly
\* when they reach it but the not-held candidates do not, and succeeds
\* otherwise.
ErrorClassification ==
  [][ \A p \in Procs :
        RunsArReserve(p) =>
          LET amount == loc[p].source.Amount
              all == SumAmounts(loc[p].utxos)
              free == SumAmounts(FreeOf(p))
          IN /\ (loc'[p].err = ErrInsufficient) <=> (all < amount)
             /\ (loc'[p].err = ErrReserved) <=> (all >= amount /\ free < amount)
             /\ (loc'[p].err = None) <=> (free >= amount) ]_vars

\* enough value in total, too much of it held by reservation 1
ErrReservedWitness ==
  \E p \in Procs :
    /\ loc[p].pc = "arUnlock" /\ loc[p].op = "Reserve"
    /\ loc[p].err = ErrReserved
    /\ loc[p].source.Amount >= 2
    /\ Cardinality(DOMAIN reserved[loc[p].ar]) >= 2

\* ---- C6 ----
\* ar.reserve by p held the first k not-held candidates and nothing else
HeldPrefix(p, k) ==
  /\ loc'[p].held = SubSeq(FreeOf(p), 1, k)
  /\ reserved'[loc[p].ar] =
       Put(reserved[loc[p].ar], OutpointsOf(SubSeq(FreeOf(p), 1, k)), loc[p].rid)

Reaches(p, k) == SumAmounts(SubSeq(FreeOf(p), 1, k)) >= loc[p].source.Amount

\* C6 as stated: a successful ar.reserve holds exactly the shortest prefix of
\* the not-held candidates whose amounts reach the requested amount.
ShortestPrefix ==
  [][ \A p \in Procs :
        (RunsArReserve(p) /\ loc'[p].err = None) =>
          \E k \in 0 .. Len(FreeOf(p)) :
            /\ Reaches(p, k)
            /\ \A j \in 0 .. k - 1 : ~Reaches(p, j)
            /\ HeldPrefix(p, k) ]_vars

\* C6: as amended: the shortest prefix that is not empty (empty only when
\* no candidate is free): the walk takes a candidate before it compares.
ShortestNonEmptyPrefix ==
  [][ \A p \in Procs :
        (RunsArReserve(p) /\ loc'[p].err = None) =>
          LET lo == IF Len(FreeOf(p)) = 0 THEN 0 ELSE 1
          IN \E k \in lo .. Len(FreeOf(p)) :
               /\ Reaches(p, k)
               /\ \A j \in lo .. k - 1 : ~Reaches(p, j)
               /\ HeldPrefix(p, k) ]_vars

\* two candidates were taken for reservation 2, one held by reservation 1
\* was skipped and a later free one was left alone
ShortestPrefixWitness ==
  \E p \in Procs :
    /\ loc[p].pc = "arUnlock" /\ loc[p].op = "Reserve" /\ loc[p].err = None
    /\ Len(loc[p].held) = 2
    /\ loc[p].held[2].Outpoint = "o3"
    /\ "o1" \in DOMAIN reserved[loc[p].ar] /\ reserved[loc[p].ar]["o1"] = 1
    /\ DOMAIN reserved[loc[p].ar] = {"o1", "o2", "o3"}

\* ---- C7 ----
\* the held-set a new request for account a is checked against holds o for
\* reservation rid
HeldFor(a, o, rid) ==
  /\ accounts[a] # Nil
  /\ o \in DOMAIN reserved[accounts[a]]
  /\ reserved[accounts[a]][o] = rid

\* C7: when Cancel(id) has succeeded, no outpoint of that reservation is
\* still held for it in the held-set of its account, so only a claim made by
\* another call can stand in the way of a following request.
ReleaseCorrect ==
  \A p \in Procs :
    (loc[p].pc = "done" /\ loc[p].op = "Cancel" /\ loc[p].err = None)
    => \A o \in OutpointsOf(loc[p].res.UTXOs) :
         ~HeldFor(loc[p].res.AccountID, o, loc[p].res.ID)

ReleaseWitness ==
  \E p \in Procs :
    /\ loc[p].pc = "done" /\ loc[p].op = "Cancel" /\ loc[p].err = None
    /\ Len(loc[p].res.UTXOs) = 2
    /\ accounts[loc[p].res.AccountID] # Nil

\* ---- C8 ----
SweepStarts(p) == loc[p].pc = "idle" /\ loc'[p].op = "ExpireReservations"

SweepReleases(p) ==
  /\ loc[p].op = "ExpireReservations"
  /\ loc[p].pc = "arCancel" /\ loc'[p].pc = "arUnlock"

\* after the sweep's ar.cancel no outpoint of res is held for it
Released(p) ==
  \A o \in OutpointsOf(loc[p].res.UTXOs) :
    /\ o \notin DOMAIN reserved'[loc[p].ar]
    /\ ~HeldFor(loc[p].res.AccountID, o, loc[p].res.ID)'

\* C8 as stated: a sweep at time now removes every Reservation whose expiry
\* is at or before now from the registry and releases its outpoints.
SweepRemovesDueOrAtNow ==
  [][ \A p \in Procs :
        /\ SweepStarts(p) =>
             \A r \in DOMAIN reservations :
               reservations[r].Expiry <= loc'[p].now => r \notin DOMAIN reservations'
        /\ SweepReleases(p) => Released(p) ]_vars

\* C8: as amended: every Reservation whose expiry is strictly before now.
SweepRemovesDue ==
  [][ \A p \in Procs :
        /\ SweepStarts(p) =>
             \A r \in DOMAIN reservations :
               reservations[r].Expiry < loc'[p].now => r \notin DOMAIN reservations'
        /\ SweepReleases(p) => Released(p) ]_vars

SweepWitness ==
  \E p \in Procs :
    /\ loc[p].op = "ExpireReservations" /\ loc[p].pc = "arUnlock"
    /\ loc[p].res.Expiry < loc[p].now
    /\ Len(loc[p].res.UTXOs) >= 1
    /\ loc[p].res.ID \notin DOMAIN reservations

\* ---- C9 ----
\* C9: no step of a sweep at time now changes the registry record of a
\* Reservation that expires strictly after now, or takes one of its outpoints
\* out of the held-set of its account.
SweepLeavesRest ==
  [][ \A p \in Procs :
        (loc'[p].op = "ExpireReservations" /\ loc'[p] # loc[p]) =>
          \A r \in DOMAIN reservations :
            reservations[r].Expiry > loc'[p].now =>
              /\ r \in DOMAIN reservations'
              /\ reservations'[r] = reservations[r]
              /\ \A o \in OutpointsOf(reservations[r].UTXOs) :
                   HeldFor(reservations[r].AccountID, o, r)
                     => HeldFor(reservations[r].AccountID, o, r)' ]_vars

\* ---- C10 ----
\* C10: Cancel(rid) fails exactly when rid is not recorded; a failing Cancel
\* changes neither the registry, nor a held-set, nor the account map, nor the
\* idempotency group; no reservation is released twice, and one that a Cancel
\* has removed has been released once when that Cancel returns.
CancelUnknown ==
  [][ /\ \A p \in Procs :
           /\ (loc[p].pc = "idle" /\ loc'[p].op = "Cancel") =>
                (loc'[p].err = ErrCancel) <=> (loc'[p].rid \notin DOMAIN reservations)
           /\ ( /\ loc'[p] # loc[p]
                /\ \/ loc'[p].op = "Cancel" /\ loc'[p].err # None
                   \/ loc[p].op = "Cancel" /\ loc[p].err # None )
              => UNCHANGED << reservations, reserved, accounts, idempotency, calls >>
      /\ \A r \in DOMAIN releases' : releases'[r] <= 1
      /\ \A p \in Procs :
           (loc'[p].pc = "done" /\ loc'[p].op = "Cancel" /\ loc'[p].err = None)
           => (loc'[p].rid \in DOMAIN releases' /\ releases'[loc'[p].rid] = 1) ]_vars

\* the second Cancel of a reservation that was already released has failed
CancelTwiceWitness ==
  \E p \in Procs :
    /\ loc[p].pc = "done" /\ loc[p].op = "Cancel" /\ loc[p].err = ErrCancel
    /\ loc[p].rid \in DOMAIN releases

\* ---- C11 ----
\* the held-set registered for account a in mr.accounts
RegisteredHeld(a) == IF accounts[a] = Nil THEN EmptyMap ELSE reserved[accounts[a]]

RunsArReserveUTXO(p) == loc[p].pc = "arReserveUTXO" /\ loc'[p].pc = "arUnlock"

\* a step of a ReserveUTXO call of p that has failed
FailedReserveUTXOStep(p) ==
  /\ loc'[p] # loc[p]
  /\ \/ loc'[p].op = "ReserveUTXO" /\ loc'[p].err # None
     \/ loc[p].op = "ReserveUTXO" /\ loc[p].err # None

\* C11: ReserveUTXO fails with ErrUserInputNotFound when the store has no
\* such UTXO (a store error aside), fails with ErrReserved exactly when the
\* outpoint is in the held-set of its account, otherwise holds that outpoint
\* and records a Reservation of exactly that one UTXO; a failing call changes
\* neither the registry nor a held-set.
ReserveUTXOOutcomes ==
  [][ \A p \in Procs :
        /\ \A o \in Outpoints \cup {MissingOutpoint}, ct \in Tokens \cup {None},
              exp \in Expiries :
             ReserveUTXO(p, o, ct, exp) =>
               /\ (findSpecificUTXO(o) = {}) => (loc'[p].err \in {ErrNotFound, ErrStore})
               /\ (loc'[p].err = ErrNotFound) => (findSpecificUTXO(o) = {})
        /\ RunsArReserveUTXO(p) =>
             LET u == loc[p].utxos[1]
             IN /\ (loc'[p].err = ErrReserved)
                     <=> (u.Outpoint \in DOMAIN RegisteredHeld(u.AccountID))
                /\ loc'[p].err \in {None, ErrReserved}
                /\ (loc'[p].err = None) =>
                     /\ loc'[p].held = << u >>
                     /\ reserved'[loc[p].ar]
                          = Put(reserved[loc[p].ar], {u.Outpoint}, loc[p].rid)
        /\ (loc[p].pc = "saveUTXO" /\ loc'[p].pc = "saveUTXOUnlock") =>
             /\ Len(loc'[p].res.UTXOs) = 1
             /\ DOMAIN reservations' = DOMAIN reservations \cup {loc'[p].res.ID}
             /\ reservations'[loc'[p].res.ID] = loc'[p].res
        /\ FailedReserveUTXOStep(p) =>
             /\ reservations' = reservations
             /\ \A a \in AccountIDs : RegisteredHeld(a)' = RegisteredHeld(a) ]_vars

\* ---- every interleaving, lock by lock ----
\* The same callers as in Next, scheduled freely: a goroutine may be
\* overtaken while it holds a mutex, and others then wait for it.
NextFree ==
  \/ Tick
  \/ \E p \in Procs, source \in Sources, exp \in Expiries :
       source.ClientToken = None /\ Reserve(p, source, exp)
  \/ \E p \in Procs : reserve(p)
  \/ \E p \in Procs : account(p)
  \/ \E p \in Procs : accountUnlock(p)
  \/ \E p \in Procs : arReserve(p)
  \/ \E p \in Procs : arReserveUTXO(p)
  \/ \E p \in Procs : arCancel(p)
  \/ \E p \in Procs : arUnlock(p)
  \/ \E p \in Procs : save(p)
  \/ \E p \in Procs : saveUnlock(p)
  \/ \E p \in Procs, o \in Outpoints \cup {MissingOutpoint},
        clientToken \in Tokens \cup {None}, exp \in Expiries :
       ReserveUTXO(p, o, clientToken, exp)
  \/ \E p \in Procs : saveUTXO(p)
  \/ \E p \in Procs : saveUTXOUnlock(p)
  \/ \E p \in Procs, rid \in 1 .. MaxRid : Cancel(p, rid)
  \/ \E p \in Procs : cancelUnlock(p)
  \/ \E p \in Sweepers : ExpireReservations(p)
  \/ \E p \in Procs : expireUnlock(p)
  \/ \E p \in Procs : gc(p)
  \/ \E p \in Procs : gcUnlock(p)
  \/ \E p \in Procs : Return(p)

SpecFree == Init /\ [][NextFree]_vars

\* ---- C12 ----
\* mutexes of the reserver that goroutine p holds
LocksHeld(p) ==
  (IF reservationsMu = p THEN 1 ELSE 0) + (IF accountsMu = p THEN 1 ELSE 0)
    + Cardinality({ d \in DomIds : mu[d] = p })

\* C12: no call holds two of reservationsMu, accountsMu and the ar.mu of
\* the account reservers at the same time.
OneLockAtATime == \A p \in Procs : LocksHeld(p) <= 1

\* one call is inside an account reserver's critical section while another
\* holds the registry lock
TwoCallsLockedWitness ==
  \E p, q \in Procs :
    /\ p # q
    /\ \E d \in DomIds : mu[d] = p
    /\ reservationsMu = q
    /\ loc[q].op = "ExpireReservations"

\* ---- C13 ----
\* no operation is in progress
Quiescent == \A p \in Procs : loc[p].pc = "idle"

\* C13: when no operation is in progress, the outpoints referenced by the
\* live Reservations are exactly the outpoints in the held-sets of the
\* account reservers registered in mr.accounts.
RegistryMatchesHeld ==
  Quiescent =>
    UNION { OutpointsOf(reservations[r].UTXOs) : r \in DOMAIN reservations }
      = UNION { DOMAIN RegisteredHeld(a) : a \in AccountIDs }

\* ---- callers with and without client tokens ----
\* Reserve with or without a client token, Cancel and the sweeper.  A client
\* that sends a token sends one request with it, again and again.
NextRetry ==
  \/ Quiet /\ Tick
  \/ Quiet /\ \E p \in Procs, source \in Sources, exp \in Expiries :
                /\ source.ClientToken # None => source.Amount = MaxAmount
                /\ Reserve(p, source, exp)
  \/ Quiet /\ \E p \in Procs : reserve(p)
  \/ Quiet /\ \E p \in Procs : account(p)
  \/ Quiet /\ \E p \in Procs : arReserve(p)
  \/ Quiet /\ \E p \in Procs : arCancel(p)
  \/ Quiet /\ \E p \in Procs : save(p)
  \/ Quiet /\ \E p \in Procs : OnceDone(p)
  \/ Quiet /\ \E p \in Procs : OnceWait(p)
  \/ Quiet /\ \E p \in Procs, rid \in 1 .. MaxRid : Cancel(p, rid)
  \/ Quiet /\ \E p \in Procs : forget(p)
  \/ Quiet /\ \E p \in Sweepers : ExpireReservations(p)
  \/ Quiet /\ \E p \in Procs : gc(p)
  \/ \E p \in Procs : accountUnlock(p)
  \/ \E p \in Procs : arUnlock(p)
  \/ \E p \in Procs : saveUnlock(p)
  \/ \E p \in Procs : cancelUnlock(p)
  \/ \E p \in Procs : expireUnlock(p)
  \/ \E p \in Procs : gcUnlock(p)
  \/ \E p \in Procs : Return(p)

SpecRetry == Init /\ [][NextRetry]_vars

\* ---- C14 ----
\* nothing is reserved and nobody else is reserving
AllReleased(p) ==
  /\ reservations = EmptyMap
  /\ \A d \in DomIds : reserved[d] = EmptyMap
  /\ \A q \in Procs \ {p} : loc[q].pc = "idle"

\* C14: a Reserve issued when every reservation has been canceled or swept
\* and no other call is running is not answered with ErrReserved: a request
\* that failed with ErrReserved succeeds when it is issued again, with the
\* same client token, after the holders are gone.
RetryAfterRelease ==
  [][ \A p \in Procs :
        ( /\ loc[p].pc = "idle"
          /\ loc'[p].op = "Reserve"
          /\ AllReleased(p)
          /\ SumAmounts(findMatchingUTXOs(loc'[p].source)) >= loc'[p].source.Amount )
        => ~( /\ loc'[p].pc = "onceWait"
              /\ calls[loc'[p].call].done
              /\ calls[loc'[p].call].err = ErrReserved ) ]_vars

\* ---- C15 ----
\* C15: two ReserveUTXO calls for one outpoint with the same client token
\* share one attempt: the second does not fail with ErrReserved against the
\* hold of the first, and the Reservation returned records the client token.
IdempotentReserveUTXO ==
  /\ \A p, q \in Procs :
       ( /\ p # q
         /\ loc[p].op = "ReserveUTXO" /\ loc[q].op = "ReserveUTXO"
         /\ loc[p].clientToken # None /\ loc[p].clientToken = loc[q].clientToken
         /\ loc[q].pc = "saveUTXO"
         /\ loc[p].pc = "arUnlock"
         /\ loc[p].utxos = loc[q].utxos )
       => loc[p].err # ErrReserved
  /\ \A p \in Procs :
       ( /\ loc[p].op = "ReserveUTXO" /\ loc[p].pc = "saveUTXOUnlock"
         /\ loc[p].clientToken # None
         /\ \E q \in Procs \ {p} : loc[q].op = "ReserveUTXO"
                                     /\ loc[q].clientToken = loc[p].clientToken )
       => loc[p].res.ClientToken = loc[p].clientToken

\* ---- the reservation counter after it has wrapped ----
\* Reservation 1 was made with a late expiry and is still live; since then
\* 2^32 - 1 further ids have been drawn (every Reserve and ReserveUTXO draws
\* one, failing ones too), so the counter has passed MaxInt32, wrapped, and
\* stands at zero again.  Everything else is at rest.
InitWrap ==
  LET u == CHOOSE x \in Store : x.Outpoint = "o1"
  IN /\ nextReservationID = 0
     /\ reservations = [r \in {1} |-> [ID |-> 1, AccountID |-> u.AccountID,
                                       UTXOs |-> << u >>, Change |-> << >>,
                                       Expiry |-> MaxExp, ClientToken |-> None]]
     /\ reservationsMu = None
     /\ accounts = [a \in AccountIDs |-> IF a = u.AccountID THEN 1 ELSE Nil]
     /\ accountsMu = None
     /\ reserved = [d \in DomIds |-> IF d = 1 THEN [o \in {u.Outpoint} |-> 1]
                                     ELSE EmptyMap]
     /\ mu = [d \in DomIds |-> None]
     /\ idempotency = [t \in Tokens |-> Nil]
     /\ calls = [c \in CallIds |-> NoCall]
     /\ clock = 0
     /\ loc = [p \in Procs |-> Idle]
     /\ attempts = [t \in Tokens |-> 0]
     /\ releases = EmptyMap

SpecWrap == InitWrap /\ [][NextReserve]_vars

\* ---- C16 ----
\* C16: recording a new Reservation never overwrites the registry record of
\* a Reservation that is still live, so live Reservations have identifiers of
\* their own.
IdentifiersUnique ==
  [][ \A p \in Procs :
        (loc[p].pc \in {"save", "saveUTXO"} /\ loc'[p].pc # loc[p].pc)
        => loc[p].rid \notin DOMAIN reservations ]_vars

\* ---- C17 ----
\* C17: every account reserver with a non-empty held-set is the one
\* registered for an account in mr.accounts: the sweep removes only empty
\* ones and no reserve commits holds into one that was removed.
HeldOnlyInRegistered ==
  \A d \in DomIds :
    reserved[d] # EmptyMap => \E a \in AccountIDs : accounts[a] = d

\* ---- requests the account cannot cover ----
\* Callers without client tokens that also ask for more than the account
\* has: Reserve, Cancel and the sweeper.
NextFail ==
  \/ Quiet /\ Tick
  \/ Quiet /\ \E p \in Procs, source \in Sources, exp \in Expiries :
                \E more \in {0, SumAmounts(findMatchingUTXOs(source))} :
                  /\ source.ClientToken = None
                  /\ Reserve(p, [source EXCEPT !.Amount = @ + more], exp)
  \/ Quiet /\ \E p \in Procs : reserve(p)
  \/ Quiet /\ \E p \in Procs : account(p)
  \/ Quiet /\ \E p \in Procs : arReserve(p)
  \/ Quiet /\ \E p \in Procs, o \in Outpoints, exp \in Expiries :
                ReserveUTXO(p, o, None, exp)
  \/ Quiet /\ \E p \in Procs : arReserveUTXO(p)
  \/ Quiet /\ \E p \in Procs : saveUTXO(p)
  \/ Quiet /\ \E p \in Procs : arCancel(p)
  \/ Quiet /\ \E p \in Procs : save(p)
  \/ Quiet /\ \E p \in Procs, rid \in 1 .. MaxRid : Cancel(p, rid)
  \/ Quiet /\ \E p \in Sweepers : ExpireReservations(p)
  \/ Quiet /\ \E p \in Procs : gc(p)
  \/ \E p \in Procs : accountUnlock(p)
  \/ \E p \in Procs : arUnlock(p)
  \/ \E p \in Procs : saveUnlock(p)
  \/ \E p \in Procs : saveUTXOUnlock(p)
  \/ \E p \in Procs : cancelUnlock(p)
  \/ \E p \in Procs : expireUnlock(p)
  \/ \E p \in Procs : gcUnlock(p)
  \/ \E p \in Procs : Return(p)

SpecFail == Init /\ [][NextFail]_vars

\* ---- C18 ----
\* the registry and the held-set registered for each account stay as they are
HoldsUnchanged ==
  /\ reservations' = reservations
  /\ \A a \in AccountIDs : RegisteredHeld(a)' = RegisteredHeld(a)

\* a step of a Reserve call of p up to the point where ar.reserve runs, or
\* after the call has failed
FailingReserveStep(p) ==
  /\ loc'[p] # loc[p]
  /\ \/ /\ loc'[p].op = "Reserve"
        /\ loc'[p].pc \in {"reserve", "account", "accountUnlock", "arReserve"}
     \/ loc'[p].op = "Reserve" /\ loc'[p].err # None
     \/ loc[p].op = "Reserve" /\ loc[p].err # None

\* C18: a Reserve that fails with ErrInsufficient, ErrReserved or a store
\* error leaves the registry and every held-set as they were: ar.reserve
\* writes no entry when it fails, and no other step of the call writes one.
FailedReserveNoEffect ==
  [][ \A p \in Procs :
        /\ (RunsArReserve(p) /\ loc'[p].err # None) =>
             /\ reserved' = reserved
             /\ loc'[p].held = << >>
        /\ FailingReserveStep(p) => HoldsUnchanged ]_vars

\* ar.reserve walked a free candidate, found the rest held, and failed
PartialWalkWitness ==
  \E p \in Procs :
    /\ loc[p].op = "Reserve" /\ loc[p].pc = "arUnlock"
    /\ loc[p].err = ErrReserved
    /\ "o1" \notin DOMAIN reserved[loc[p].ar]
    /\ "o2" \in DOMAIN reserved[loc[p].ar]

\* ---- fair scheduling ----
\* the steps that carry a running call of p on to its return
Step(p) ==
  \/ reserve(p)
  \/ account(p)
  \/ accountUnlock(p)
  \/ arReserve(p)
  \/ arReserveUTXO(p)
  \/ arCancel(p)
  \/ arUnlock(p)
  \/ save(p)
  \/ saveUnlock(p)
  \/ saveUTXO(p)
  \/ saveUTXOUnlock(p)
  \/ cancelUnlock(p)
  \/ expireUnlock(p)
  \/ gc(p)
  \/ gcUnlock(p)
  \/ Return(p)

\* The Go scheduler runs every runnable goroutine, and sync.Mutex hands a
\* lock to a goroutine that keeps waiting for it (starvation mode): a call
\* whose next step is possible again and again takes it.
Fairness == \A p \in Procs : SF_vars(Step(p))

\* Callers without client tokens whose reservations are due at the first
\* tick, and the sweeper, scheduled freely.
NextFair ==
  \/ Tick
  \/ \E p \in Procs, source \in Sources :
       source.ClientToken = None /\ Reserve(p, source, 0)
  \/ \E p \in Procs, o \in Outpoints \cup {MissingOutpoint} :
       ReserveUTXO(p, o, None, 0)
  \/ \E p \in Procs, rid \in 1 .. MaxRid : Cancel(p, rid)
  \/ \E p \in Sweepers : ExpireReservations(p)
  \/ \E p \in Procs : Step(p)

SpecFair == Init /\ [][NextFair]_vars /\ Fairness

\* ---- C19 ----
Running(p) == loc[p].pc # "idle"

\* some running call can take its next step
NoCircularWait ==
  (\E p \in Procs : Running(p)) => \E p \in Procs : Running(p) /\ ENABLED Step(p)

ReleaseOnlyOwn ==
  [][ \A p \in Procs :
        (loc[p].pc = "arCancel" /\ loc'[p].pc = "arUnlock") =>
          LET d == loc[p].ar
              res == loc[p].res
          IN /\ \A o \in DOMAIN reserved[d] :
                  reserved[d][o] # res.ID =>
                    o \in DOMAIN reserved'[d] /\ reserved'[d][o] = reserved[d][o]
             /\ DOMAIN reserved'[d] \subseteq DOMAIN reserved[d]
             /\ \A e \in DomIds \ {d} : reserved'[e] = reserved[e]
             /\ accountReserver_cancel(reserved'[d], res) = reserved'[d] ]_vars

\* ---- C21 ----
\* C21: in every state, also while calls are in flight, each outpoint of each
\* Reservation recorded in the registry is in the held-set registered for the
\* Reservation's account, under the Reservation's identifier.
LiveReservationsBacked ==
  \A r \in DOMAIN reservations :
    \A o \in OutpointsOf(reservations[r].UTXOs) :
      HeldFor(reservations[r].AccountID, o, r)

\* ---- C22 ----
\* a Reserve or ReserveUTXO call of p places its holds
PlacesHolds(p) ==
  /\ RunsArReserve(p) \/ RunsArReserveUTXO(p)
  /\ loc'[p].err = None

\* C22: when a call places the holds of its Reservation, every Reservation
\* already recorded in the registry (whose holds were placed earlier still)
\* has a smaller identifier than the one the call has drawn.
IdOrderIsCreationOrder ==
  [][ \A p \in Procs :
        PlacesHolds(p) => \A r \in DOMAIN reservations : r < loc[p].rid ]_vars

====
